---- MODULE Spec2Model ----
(***************************************************************************)
(* The admittance controller of examples/admittance.py as a state machine. *)
(*                                                                         *)
(* Real quantities are kept as exact integers:                             *)
(*   task velocities and wrenches   in units of 1/TaskDen                  *)
(*   joint velocities               in units of 1/(TaskDen*Fine)           *)
(*   time steps                     in units of 1/10 s                     *)
(*   joint positions                in units of 1/(10*TaskDen*Fine)        *)
(* so that position = q + dt * velocity needs no rescaling, and the        *)
(* stationary point WTrack*vg/(WTrack+WReg) and the bound velocities       *)
(* (limit - q)/dt are integers.                                            *)
(***************************************************************************)
EXTENDS Integers, Sequences, FiniteSets, TLC

VARIABLES
    robot,     \* self.robot: the model loaded at construction
    solution,  \* self.solution: None or the last solve's joint velocities
    x0,        \* the initial seed held by self.solver
    lastOp,    \* "init" after __init__, "call" after __call__
    call,      \* the arguments of the last __call__ and what it handed on
    ret,       \* what the last __call__ gave its caller
    twin       \* history: see Step

vars == <<robot, solution, x0, lastOp, call, ret, twin>>

\* "no value": self.solution is None, no seed, no result.  A solution is a
\* sequence of ndof >= 1 joint velocities, so the empty sequence is free.
None == << >>

\* ------------------------------------------------------------------ bounds
\* time steps range over 0..MaxDt tenths of a second
MaxDt == 2

\* ------------------------------------------------------------------- units
WTrack == 50
WReg == 1
TaskDen == 10 * (WTrack + WReg)
Fine == 12 * (WTrack + WReg)
\* c hundredths of a position unit (rad or m)
Centi(c) == c * ((TaskDen * Fine) \div 10)
\* t/TaskDen as a joint velocity
JointVel(t) == t * Fine

Abs(x) == IF x < 0 THEN -x ELSE x
Min(a, b) == IF a < b THEN a ELSE b
Max(a, b) == IF a > b THEN a ELSE b
FloorDiv(a, b) == IF a >= 0 THEN a \div b ELSE -((-a + b - 1) \div b)
CeilDiv(a, b) == -FloorDiv(-a, b)

\* -------------------------------------------------- the robot (load_robot)
Axis(k) == [i \in 1..6 |-> IF i = k THEN 1 ELSE 0]

RevoluteZ ==
    [name |-> "revolute_z", ndof |-> 1, J |-> <<Axis(6)>>,
     lower |-> <<Centi(-97)>>, upper |-> <<Centi(97)>>]

GantryXZ ==
    [name |-> "gantry_xz", ndof |-> 2, J |-> <<Axis(1), Axis(6)>>,
     lower |-> <<Centi(-100), Centi(-97)>>, upper |-> <<Centi(100), Centi(97)>>]

Inverted ==
    [name |-> "inverted_x", ndof |-> 1, J |-> <<Axis(1)>>,
     lower |-> <<Centi(100)>>, upper |-> <<Centi(-100)>>]

Robots == {RevoluteZ, GantryXZ, Inverted}

load_robot(r) == r

\* ------------------------------------------------ constants of __init__
GainNum == <<1, 1, 1, 6, 6, 6>>
GainDen == 20
\* [0.2, 0.2, 0.2, deg2rad(40) x 3] in units of 1/TaskDen
vlim == <<102, 102, 102, 356, 356, 356>>

\* ------------------------------------------------------------ the inputs
QVals == {Centi(0), Centi(95), Centi(-95), Centi(120)}
Configurations ==
    {<< >>} \cup {<<a>> : a \in QVals}
            \cup {<<a, Centi(95)>> : a \in {Centi(0), Centi(-95), Centi(120)}}

Wrenches ==
    { <<0, 0, 0, 0, 0, 0>>,
      <<5100, 0, 0, 0, 0, 850>>,
      <<-5100, 0, 0, 0, 0, -850>>,
      <<1020, 20, 0, -20, 0, 5100>> }

TimeSteps == 0..MaxDt

\* ------------------------------------------------------ admittance mapping
clip(x, lo, hi) == Min(Max(x, lo), hi)

\* the clip applied on the upper side only
MapWrenchToVelocity_UpperOnly(wr) ==
    LET vg == [i \in 1..6 |-> (GainNum[i] * wr[i]) \div GainDen]
    IN [i \in 1..6 |-> Min(vg[i], vlim[i])]

\* vg = clip(gain * wr, -vlim, vlim); the wrenches of Wrenches make the
\* division exact
MapWrenchToVelocity(wr) ==
    LET vg == [i \in 1..6 |-> (GainNum[i] * wr[i]) \div GainDen]
    IN [i \in 1..6 |-> clip(vg[i], -vlim[i], vlim[i])]

\* --------------------------------------------------- the quadratic program
Dot(a, b) ==
    a[1] * b[1] + a[2] * b[2] + a[3] * b[3] + a[4] * b[4] + a[5] * b[5] + a[6] * b[6]

Joints(rb) == 1..rb.ndof

\* v = J @ dq, in joint-velocity units
TaskVel(rb, dq) ==
    [k \in 1..6 |->
        IF rb.ndof = 1 THEN rb.J[1][k] * dq[1]
        ELSE rb.J[1][k] * dq[1] + rb.J[2][k] * dq[2]]

\* the gradient of sumsqr(J @ dq - vg) + sumsqr(dq): the weight 50.0 lost
CostGradient_Unweighted(rb, dq, vg, i) ==
    LET v == TaskVel(rb, dq)
        e == [k \in 1..6 |-> v[k] - JointVel(vg[k])]
    IN Dot(rb.J[i], e) + WReg * dq[i]

\* half the gradient, in joint i, of
\*   50.0 * sumsqr(J @ dq - vg) + sumsqr(dq)
CostGradient(rb, dq, vg, i) ==
    LET v == TaskVel(rb, dq)
        e == [k \in 1..6 |-> v[k] - JointVel(vg[k])]
    IN WTrack * Dot(rb.J[i], e) + WReg * dq[i]

\* half the second derivative of the cost in joint i (the columns of J are
\* orthogonal for every robot of Robots, so the Hessian is diagonal)
CostCurvature(rb, i) == WTrack * Dot(rb.J[i], rb.J[i]) + WReg

\* q = qc + dt * dq, the expression the joint limits bound
NextPosition(qc, dt, dq, i) == qc[i] + dt * dq[i]

WithinLimits(rb, q, i) == rb.lower[i] <= q /\ q <= rb.upper[i]

\* ----------------------------------------------- the solver (qpoases)
\* the velocities joint i may take under the joint limit constraint
VelLo(rb, qc, dt, i) == CeilDiv(rb.lower[i] - qc[i], dt)
\* the constraint built on qc + dq: the time step forgotten
VelHi_NoDt(rb, qc, dt, i) == rb.upper[i] - qc[i]

VelHi(rb, qc, dt, i) == FloorDiv(rb.upper[i] - qc[i], dt)

Infeasible(rb, qc, dt) ==
    \E i \in Joints(rb) :
        IF dt = 0 THEN ~WithinLimits(rb, qc[i], i)
        ELSE VelLo(rb, qc, dt, i) > VelHi(rb, qc, dt, i)

\* a solve that stops half way along its step
SolveFrom_HalfStep(rb, seed, qc, vg, dt) ==
    LET start == IF seed = None THEN [i \in Joints(rb) |-> 0] ELSE seed
        free == [i \in Joints(rb) |->
                    start[i] - (CostGradient(rb, start, vg, i) \div (2 * CostCurvature(rb, i)))]
    IN [i \in Joints(rb) |->
            IF dt = 0 THEN free[i]
            ELSE clip(free[i], VelLo(rb, qc, dt, i), VelHi(rb, qc, dt, i))]

\* the solve: from the seed (the origin without one) one exact Newton step
\* to the stationary point of the cost, cut back to the bounds it crosses
SolveFrom(rb, seed, qc, vg, dt) ==
    LET start == IF seed = None THEN [i \in Joints(rb) |-> 0] ELSE seed
        free == [i \in Joints(rb) |->
                    start[i] - (CostGradient(rb, start, vg, i) \div CostCurvature(rb, i))]
    IN [i \in Joints(rb) |->
            IF dt = 0 THEN free[i]
            ELSE clip(free[i], VelLo(rb, qc, dt, i), VelHi(rb, qc, dt, i))]

\* ----------------------------------------------------------- __init__
NoCall == [qc |-> None, wr |-> None, dt |-> 0, vg |-> None, seed |-> None, before |-> None]
NoRet == [status |-> "none", kind |-> "", dq |-> None, qg |-> None]

\* a constructor that starts from a zero solution instead of none
InitialSolution_Zero == <<0>>

\* self.solution = None
InitialSolution == None

\* call.before keeps what self.solution of the instance replaced was
Construct(lbr_med_num) ==
    /\ robot' = load_robot(lbr_med_num)
    /\ solution' = InitialSolution
    /\ x0' = None
    /\ lastOp' = "init"
    /\ call' = [NoCall EXCEPT !.before = solution]
    /\ ret' = NoRet
    /\ twin' = None

Init ==
    \E r \in Robots :
        /\ robot = load_robot(r)
        /\ solution = InitialSolution
        /\ x0 = None
        /\ lastOp = "init"
        /\ call = NoCall
        /\ ret = NoRet
        /\ twin = None

\* ----------------------------------------------------------- __call__
\* reset_initial_seed never called: the solver keeps what it held
SeedHandedOver_Never(sol, held) == held

\* reset_initial_seed: the seed the solver holds when solve() runs
SeedHandedOver(sol, held) == IF sol # None THEN sol ELSE held

\* a check that lets a longer vector through
DimensionsAgree_AtLeast(rb, qc) == Len(qc) >= rb.ndof

\* reset_parameters / solve raise when qc does not fill the parameter "qc"
DimensionsAgree(rb, qc) == Len(qc) = rb.ndof

\* qg = qc + dqg with dqg per second: the time step forgotten
Integrate_NoDt(rb, qc, dt, dqg) == [i \in Joints(rb) |-> qc[i] + 10 * dqg[i]]

\* qg = qc + dt * dqg
Integrate(rb, qc, dt, dqg) == [i \in Joints(rb) |-> NextPosition(qc, dt, dqg, i)]

\* the result of solve() stored whether or not it raised
SolutionAfter_AssignAlways(old, raised, solved) == solved

\* the cache dropped when the solve fails
SolutionAfter_ClearOnFailure(old, raised, solved) == IF raised THEN None ELSE solved

\* self.solution after line 107: assigned only when solve() returns
SolutionAfter(old, raised, solved) == IF raised THEN old ELSE solved

Step(qc, wr, dt, converges) ==
    LET vg == MapWrenchToVelocity(wr)
        seed == SeedHandedOver(solution, x0)
        dimErr == ~DimensionsAgree(robot, qc)
        failed == ~dimErr /\ (Infeasible(robot, qc, dt) \/ ~converges)
        raised == dimErr \/ failed
        dq == IF raised THEN None ELSE SolveFrom(robot, seed, qc, vg, dt)
    IN /\ x0' = seed
       /\ solution' = SolutionAfter(solution, raised, dq)
       /\ call' = [qc |-> qc, wr |-> wr, dt |-> dt, vg |-> vg,
                   seed |-> seed, before |-> solution]
       /\ ret' = IF dimErr THEN [status |-> "error", kind |-> "DimensionMismatch",
                                 dq |-> None, qg |-> None]
                 ELSE IF failed THEN [status |-> "error", kind |-> "SolverFailure",
                                      dq |-> None, qg |-> None]
                 ELSE [status |-> "ok", kind |-> "", dq |-> dq,
                       qg |-> Integrate(robot, qc, dt, dq)]
       \* the velocity solution of the call just before this one, kept when
       \* that call started from ColdStart, succeeded and had these arguments
       /\ twin' = IF /\ lastOp = "call" /\ ret.status = "ok" /\ call.before = None
                     /\ call.qc = qc /\ call.wr = wr /\ call.dt = dt
                  THEN ret.dq ELSE None
       /\ lastOp' = "call"
       /\ UNCHANGED robot

Reinit == \E r \in Robots : Construct(r)

Call ==
    \E qc \in Configurations, wr \in Wrenches, dt \in TimeSteps, converges \in BOOLEAN :
        Step(qc, wr, dt, converges)

Next == Reinit \/ Call

Spec == Init /\ [][Next]_vars

\* ================================================================ claims
Called == lastOp = "call"
Succeeded == Called /\ ret.status = "ok"
Failed == Called /\ ret.status = "error"
WarmBefore == call.before # None

ConfigurationWithinLimits ==
    /\ Len(call.qc) = robot.ndof
    /\ \A i \in Joints(robot) : WithinLimits(robot, call.qc[i], i)

\* C1: after a successful step whose configuration was within the joint
\* limits and whose dt was positive, the returned commanded configuration
\* qc + dt * dq lies within [lower, upper] in every joint.
C1_CommandWithinLimits ==
    (Succeeded /\ call.dt > 0 /\ ConfigurationWithinLimits)
        => \A i \in Joints(robot) : WithinLimits(robot, ret.qg[i], i)

\* a successful step from within the limits that the upper limit cut short
C1_Witness ==
    /\ Succeeded /\ call.dt > 0 /\ ConfigurationWithinLimits
    /\ \E i \in Joints(robot) :
          /\ ret.qg[i] = robot.upper[i]
          /\ call.qc[i] < robot.upper[i]

\* C2: in every step the desired task velocity handed to the solver is
\* gain * wrench clamped into [-vlim, +vlim]: it is gain * wrench where that
\* lies inside, the nearer limit where it does not, and never exceeds vlim
\* in magnitude; this holds whether or not the solve then succeeds.
C2_VelocityClamped ==
    Called =>
        \A i \in 1..6 :
            LET gw == (GainNum[i] * call.wr[i]) \div GainDen
            IN /\ Abs(call.vg[i]) <= vlim[i]
               /\ (Abs(gw) <= vlim[i] => call.vg[i] = gw)
               /\ (gw > vlim[i] => call.vg[i] = vlim[i])
               /\ (gw < -vlim[i] => call.vg[i] = -vlim[i])

\* a step whose wrench asked for less than -vlim in one component, more
\* than +vlim was not asked, and an unclamped component is present too
C2_Witness ==
    /\ Called
    /\ \E i \in 1..6 : GainNum[i] * call.wr[i] < -(vlim[i] * GainDen)
                        /\ call.vg[i] = -vlim[i]
    /\ \E i \in 1..6 : call.vg[i] # 0 /\ Abs(call.vg[i]) < vlim[i]

\* C3: when the solve of a step fails, the step gives its caller an error
\* and no commanded configuration, and self.solution is what it was before.
C3_FailureKeepsSeed ==
    (Failed /\ ret.kind = "SolverFailure")
        => /\ ret.qg = None
           /\ solution = call.before

\* a solver failure in WarmStart
C3_Witness ==
    /\ Failed /\ ret.kind = "SolverFailure"
    /\ WarmBefore /\ solution = call.before

DesiredJointVelocity == Dot(robot.J[1], call.vg)
UnconstrainedOptimum == (WTrack * JointVel(DesiredJointVelocity)) \div (WTrack + WReg)

\* C5 as stated: on a one-joint arm the velocity of a successful step is the
\* unconstrained optimum when that keeps the joint within its limits, and
\* otherwise the velocity that puts the joint on the upper limit.
C5_Original_UpperBoundOtherwise ==
    (Succeeded /\ robot.ndof = 1) =>
        LET q == call.qc[1]
            dt == call.dt
        IN IF WithinLimits(robot, q + dt * UnconstrainedOptimum, 1)
           THEN ret.dq[1] = UnconstrainedOptimum
           ELSE q + dt * ret.dq[1] = robot.upper[1]

\* C5 amended: ... and otherwise the velocity that puts the joint on the
\* limit the unconstrained optimum would cross, upper or lower.  With
\* q = 0.95, dt = 0.1, vd = 0.5 and upper limit 0.97 the velocity is 0.2;
\* with q = 0, dt = 0.1, vd = 0.5 it is 25/51 and the command 2.5/51.
C5_OptimumOrActiveBound ==
    (Succeeded /\ robot.ndof = 1) =>
        LET q == call.qc[1]
            dt == call.dt
            free == q + dt * UnconstrainedOptimum
        IN /\ IF WithinLimits(robot, free, 1)
              THEN ret.dq[1] = UnconstrainedOptimum
              ELSE IF free > robot.upper[1]
                   THEN q + dt * ret.dq[1] = robot.upper[1]
                   ELSE q + dt * ret.dq[1] = robot.lower[1]
           /\ (/\ q = Centi(95) /\ dt = 1 /\ DesiredJointVelocity = TaskDen \div 2
               /\ robot.upper[1] = Centi(97))
                 => 5 * ret.dq[1] = JointVel(TaskDen)
           /\ (q = 0 /\ dt = 1 /\ DesiredJointVelocity = TaskDen \div 2)
                 => /\ (WTrack + WReg) * ret.dq[1] = 25 * JointVel(TaskDen)
                    /\ (WTrack + WReg) * ret.qg[1] = 25 * JointVel(TaskDen)

\* the boundary scenario: q = 0.95, dt = 0.1, vd = 0.5, upper limit 0.97,
\* and the step returned the velocity 0.2
C5_Witness ==
    /\ Succeeded /\ robot.ndof = 1
    /\ call.qc[1] = Centi(95) /\ call.dt = 1
    /\ DesiredJointVelocity = TaskDen \div 2
    /\ robot.upper[1] = Centi(97)
    /\ ret.dq[1] # UnconstrainedOptimum
    /\ 5 * ret.dq[1] = JointVel(TaskDen)

\* C6: two steps in a row with the same arguments, the first from ColdStart
\* and successful: the second is warm-started from the first's solution
\* and, when it succeeds, returns the same velocity solution.
C6_SameArgumentsSameSolution ==
    (Called /\ twin # None)
        => /\ call.seed = twin
           /\ (ret.status = "ok" => ret.dq = twin)

\* the second of two such steps, seeded, with a solution that is not zero
C6_Witness ==
    /\ Succeeded /\ twin # None
    /\ call.seed = twin
    /\ ret.dq = twin
    /\ \E i \in Joints(robot) : ret.dq[i] # 0

\* C7 as stated: in WarmStart there is an operation of the controller, not
\* its construction, that clears the cached seed.
C7_Original_ResetExposed ==
    (solution # None) => ENABLED (Next /\ lastOp' # "init" /\ solution' = None)

\* C7 amended: the controller has no resetWarmStart; the cached seed is
\* cleared by constructing the controller again, whatever the state, and a
\* step taken with no cached seed hands the solver no seed.
C7_ConstructionClearsSeed ==
    /\ (lastOp = "init" => solution = None /\ x0 = None)
    /\ (solution = None => x0 = None)
    /\ (Called /\ ~WarmBefore => call.seed = None)

\* a controller constructed anew where the one before it was in WarmStart
C7_Witness ==
    /\ lastOp = "init" /\ call.before # None
    /\ solution = None /\ x0 = None

\* C8: construction fails when some joint has lower > upper, so no step is
\* ever taken on a controller whose joint limits are inverted.
C8_Original_NoInvertedLimits ==
    Called => \A i \in Joints(robot) : robot.lower[i] <= robot.upper[i]

\* C9: a new controller has no cached seed; after every successful step
\* the cached seed is that step's solution; and the seed a step hands the
\* solver is the seed cached when the step began.
C9_SeedIsLastSolution ==
    /\ (lastOp = "init" => solution = None)
    /\ (Succeeded => solution = ret.dq /\ solution # None)
    /\ (Called => call.seed = call.before)

\* a successful step in WarmStart that replaced the seed by another
C9_Witness ==
    /\ Succeeded /\ WarmBefore
    /\ call.seed = call.before
    /\ solution = ret.dq /\ solution # call.before

\* C10: the cached seed goes from some solution to none only by
\* constructing the controller, never in a step, failing or not.
C10_SeedClearedOnlyByInit ==
    [][(solution # None /\ solution' = None) => lastOp' = "init"]_vars

\* a step that failed on the configuration's length in WarmStart and kept
\* the seed
C10_Witness ==
    /\ Failed /\ WarmBefore
    /\ solution # None

====
